---- MODULE Spec2Model ----
(***************************************************************************)
(* Model of flappybird.py: the life loop of main() with the tabular        *)
(* Q-learning agent, the bird and the pipe queue.                          *)
(*                                                                         *)
(* Numbers.  The program computes with IEEE doubles; the model uses        *)
(* integers in fixed units:                                                *)
(*   - table values in 1/QS (QS = 1000), rounded to the nearest unit;      *)
(*   - the bird's y in 1/YS pixel (YS = 10^6);                             *)
(*   - msec_to_climb in 1/30 ms, in which 333.3 ms = 9999 and one frame    *)
(*     at 60 FPS = 500 exactly;                                            *)
(*   - a pipe's x in pixels: it starts at 567.0 and moves by exactly 3.0   *)
(*     per frame, so it is an integer at every frame.                      *)
(*                                                                         *)
(* Randomness.  A generator state is [seed, pos]: the seeding and the      *)
(* number of random() calls made since.  random() is a function of the     *)
(* generator state; the model keeps its first decimal digit (the decile),  *)
(* which decides both randint(1, 10) and randint(0, 1).                    *)
(*                                                                         *)
(* Collisions.  pygame's collide_mask needs the image files; the model     *)
(* takes the bird's silhouette as its 32x32 rectangle and a pipe pair's    *)
(* as the two pipe rectangles that PipePair.__init__ blits.                *)
(***************************************************************************)
EXTENDS Integers, Sequences, FiniteSets, TLC

\* ---------------------------------------------------------------- bounds
MaxLives == 3
MaxQuits == 1
MaxDraws == 60

\* ------------------------------------------------------------- constants
FPS == 60
WIN_WIDTH == 568
WIN_HEIGHT == 512
BIRD_X == 50
BIRD_WIDTH == 32
BIRD_HEIGHT == 32
PIPE_WIDTH == 80
PIECE_HEIGHT == 32
ADD_INTERVAL == 3000
DECISION_INTERVAL == 15

QS == 1000
YS == 1000000
\* msec_to_climb, in 1/30 ms
CLIMB_DURATION == 9999
INITIAL_CLIMB == 60
FRAME_MSEC == 500
\* bird.y per sinking frame: SINK_SPEED * frames_to_msec(1) = 3.0 px
SINK_STEP == 3000000
\* pipe x per frame: ANIMATION_SPEED * frames_to_msec(1) = 3.0 px
PIPE_STEP == 3

DEATH_VALUE == -1000
ALIVE_REWARD == 1
BONUS == 100
\* learning rate and discounts, in percent
ALPHA == 70
GAMMA_PERIODIC == 90
GAMMA_DEATH == 75

\* msec_to_frames(PipePair.ADD_INTERVAL)
FramesPerAdd == (FPS * ADD_INTERVAL) \div 1000

\* int((WIN_HEIGHT - 3*Bird.HEIGHT - 3*PIECE_HEIGHT) / PIECE_HEIGHT)
total_pipe_body_pieces == (WIN_HEIGHT - 3 * BIRD_HEIGHT - 3 * PIECE_HEIGHT) \div PIECE_HEIGHT

\* ------------------------------------------------------------ randomness
\* The deciles of random() after random.seed(0) (Mersenne Twister).
SeedZero ==
  << 8, 7, 4, 2, 5, 4, 7, 3, 4, 5, 9, 5, 2, 7, 6, 2,
     9, 9, 8, 9, 3, 7, 8, 6, 4, 1, 4, 6, 9, 9, 4, 8,
     2, 8, 5, 0, 7, 3, 8, 6, 0, 4, 8, 2, 3, 8, 1, 5,
     2, 9, 8, 4, 0, 3, 5, 9, 1, 5, 7, 5, 8, 5, 9, 6 >>

\* The generator as the interpreter seeds it from the operating system at
\* import: one table of deciles per seeding the model considers.
\* osA: the bird passes the first pipe, then hits the top of the window.
OsA ==
  << 0, 7, 5, 0, 7, 5, 0, 7, 5, 5, 5, 0, 7, 5, 5, 5,
     0, 7, 5, 0, 7, 0, 7, 0, 7, 6, 0, 7, 3, 9, 1, 8,
     5, 2, 0, 6, 4, 2, 7, 5, 9, 4, 6, 3, 8, 2, 7, 5,
     9, 4, 6, 3, 8, 2, 7, 5, 9, 4, 6, 3, 8, 2, 7, 5 >>

\* osB: the bird hits the first pipe in frame 181.
OsB ==
  << 0, 7, 1, 3, 0, 7, 5, 0, 7, 5, 6, 5, 1, 8, 5, 5,
     5, 5, 3, 7, 0, 8, 5, 5, 1, 2, 6, 9, 8, 2, 7, 5,
     9, 4, 6, 3, 8, 2, 7, 5, 9, 4, 6, 3, 8, 2, 7, 5,
     9, 4, 6, 3, 8, 2, 7, 5, 9, 4, 6, 3, 8, 2, 7, 5 >>

\* osC: the bird hits the first pipe in frame 179, a decision-interval check,
\* and passes it in the second life.
OsC ==
  << 5, 0, 7, 6, 0, 7, 5, 1, 8, 5, 5, 0, 7, 5, 5, 0,
     7, 0, 7, 5, 0, 7, 5, 0, 7, 5, 5, 5, 0, 7, 5, 5,
     5, 0, 7, 5, 5, 5, 5, 5, 5, 5, 5, 5, 5, 6, 0, 6,
     6, 6, 6, 6, 6, 6, 6, 6, 6, 0, 6, 6, 6, 6, 6, 6 >>

\* osD: the bird passes two pipes and hits the top of the window in frame
\* 410; the second life follows the table past the first pipe.
OsD ==
  << 5, 5, 5, 0, 7, 5, 0, 7, 5, 5, 0, 7, 0, 7, 0, 7,
     5, 5, 0, 7, 5, 5, 5, 0, 7, 5, 0, 7, 5, 5, 5, 5,
     0, 7, 0, 7, 0, 7, 5, 6, 0, 6, 6, 6, 6, 6, 6, 6,
     6, 6, 6, 6, 6, 6, 6, 6, 6, 6, 6, 6, 6, 6, 6, 6 >>

OsSeeds == {"osA", "osB", "osC", "osD"}

Table(seed) ==
  CASE seed = "zero" -> SeedZero
    [] seed = "osA" -> OsA
    [] seed = "osB" -> OsB
    [] seed = "osC" -> OsC
    [] seed = "osD" -> OsD

\* random.random(): its decile, a function of the generator state
Decile(g) == Table(g.seed)[g.pos + 1]

\* the generator state after one random() call
Advance(g) == [g EXCEPT !.pos = @ + 1]

\* random.randint(a, b) = a + int(random() * (b - a + 1))
randint(g, a, b) == a + (Decile(g) * (b - a + 1)) \div 10

\* random.seed(0)
Seeded == [seed |-> "zero", pos |-> 0]

\* the 0 that random_state = [0, 0] holds before the first life
Unset == [seed |-> "unset", pos |-> 0]

\* ------------------------------------------------------------ arithmetic
\* n / d rounded to the nearest integer (d > 0)
Round(n, d) == (n + d \div 2) \div d

\* Python's int(): truncation toward zero of n / d
Trunc(n, d) == IF n >= 0 THEN n \div d ELSE -((-n) \div d)

\* ----------------------------------------------------------- value table
Get(d, k) == IF k \in DOMAIN d THEN d[k] ELSE 0

Put(d, k, v) == [x \in (DOMAIN d) \cup {k} |-> IF x = k THEN v ELSE d[x]]

get_max_reward(st, d, a) ==
  IF Get(d, <<st, a>>) > Get(d, <<st, ~a>>)
  THEN Get(d, <<st, a>>)
  ELSE Get(d, <<st, ~a>>)

\* old + .7 * (reward + gamma * max_reward - old), gamma in percent
TD(old, reward, gamma, max_reward) ==
  old + Round((ALPHA \div 10) * (100 * reward * QS + gamma * max_reward - 100 * old), 1000)

\* ------------------------------------------------------------------ bird
\* CLIMB_SPEED * frames_to_msec(1) * (1 - cos(frac_climb_done * pi)) in 1/YS
\* pixel, for the values msec_to_climb takes: 333.3 ms less whole frames, and
\* the 2 ms of a new life.
ClimbStep(msec) ==
  CASE msec = 9999 -> 0
    [] msec = 9499 -> 61571
    [] msec = 8999 -> 244766
    [] msec = 8499 -> 545074
    [] msec = 7999 -> 955100
    [] msec = 7499 -> 1464744
    [] msec = 6999 -> 2061455
    [] msec = 6499 -> 2730537
    [] msec = 5999 -> 3455513
    [] msec = 5499 -> 4218526
    [] msec = 4999 -> 5000785
    [] msec = 4499 -> 5783026
    [] msec = 3999 -> 6545981
    [] msec = 3499 -> 7270862
    [] msec = 2999 -> 7939816
    [] msec = 2499 -> 8536367
    [] msec = 1999 -> 9045824
    [] msec = 1499 -> 9455639
    [] msec = 999 -> 9755719
    [] msec = 499 -> 9938675
    [] msec = 60 -> 9999112

\* Bird(50, int(WIN_HEIGHT/2 - Bird.HEIGHT/2), 2, images)
NewBird == [y |-> ((WIN_HEIGHT \div 2) - (BIRD_HEIGHT \div 2)) * YS,
            msec_to_climb |-> INITIAL_CLIMB]

\* Bird.update()
BirdUpdate(b) ==
  IF b.msec_to_climb > 0
  THEN [y |-> b.y - ClimbStep(b.msec_to_climb),
        msec_to_climb |-> b.msec_to_climb - FRAME_MSEC]
  ELSE [b EXCEPT !.y = @ + SINK_STEP]

\* 0 >= bird.y or bird.y >= WIN_HEIGHT - Bird.HEIGHT
OutOfBounds(b) == 0 >= b.y \/ b.y >= (WIN_HEIGHT - BIRD_HEIGHT) * YS

\* ----------------------------------------------------------------- pipes
\* PipePair.__init__: the gap is drawn from random_state[0], which is saved
\* back; the module's generator is left in that state too.
PipePairInit(random_state, id) ==
  LET g == random_state[0]
      drawn == randint(g, 1, total_pipe_body_pieces)
      g1 == Advance(g)
  IN  [pipe |-> [id |-> id,
                 x |-> WIN_WIDTH - 1,
                 score_counted |-> FALSE,
                 bottom_pieces |-> drawn + 1,
                 top_pieces |-> (total_pipe_body_pieces - drawn) + 1],
       random_state |-> [random_state EXCEPT ![0] = g1],
       rng |-> g1]

\* visible for a pipe that is inside the window as a whole
visibleWhole(p) == 0 < p.x /\ p.x + PIPE_WIDTH < WIN_WIDTH

\* visible with the window's width in place of the pipe's
visibleFar(p) == -WIN_WIDTH < p.x /\ p.x < WIN_WIDTH

\* PipePair.visible
visible(p) == -PIPE_WIDTH < p.x /\ p.x < WIN_WIDTH

\* PipePair.update()
PipeUpdate(p) == [p EXCEPT !.x = @ - PIPE_STEP]

\* PipePair.collides_with(bird)
collides_with(p, b) ==
  LET by == Trunc(b.y, YS)
  IN  /\ p.x < BIRD_X + BIRD_WIDTH
      /\ p.x + PIPE_WIDTH > BIRD_X
      /\ \/ by < p.top_pieces * PIECE_HEIGHT
         \/ by + BIRD_HEIGHT > WIN_HEIGHT - p.bottom_pieces * PIECE_HEIGHT

\* any(p.collides_with(bird) for p in pipes)
AnyCollision(ps, b) == \E i \in 1..Len(ps) : collides_with(ps[i], b)

\* ----------------------------------------------------------------- agent
\* determine_action without the score gate
determine_action_ungated(st, d, random_state, sc, best) ==
  LET g == random_state[1]
      value == randint(g, 1, 10)
      g1 == Advance(g)
      coin == randint(g1, 0, 1)
      g2 == Advance(g1)
  IN  IF value < 3
      THEN [action |-> (coin = 1), value |-> value, explored |-> TRUE,
            random_state |-> [random_state EXCEPT ![1] = g2], rng |-> g2]
      ELSE [action |-> (Get(d, <<st, TRUE>>) > Get(d, <<st, FALSE>>)),
            value |-> value, explored |-> FALSE,
            random_state |-> [random_state EXCEPT ![1] = g1], rng |-> g1]

\* determine_action with ties resolved to a click
determine_action_ties_up(st, d, random_state, sc, best) ==
  LET g == random_state[1]
      state_click == Get(d, <<st, TRUE>>)
      state_nothing == Get(d, <<st, FALSE>>)
      value == randint(g, 1, 10)
      g1 == Advance(g)
      coin == randint(g1, 0, 1)
      g2 == Advance(g1)
  IN  IF value < 3 /\ sc >= best
      THEN [action |-> (coin = 1), value |-> value, explored |-> TRUE,
            random_state |-> [random_state EXCEPT ![1] = g2], rng |-> g2]
      ELSE [action |-> (state_click >= state_nothing), value |-> value,
            explored |-> FALSE,
            random_state |-> [random_state EXCEPT ![1] = g1], rng |-> g1]

\* determine_action: value is the first draw, explored whether the random
\* branch was taken.
determine_action(st, d, random_state, sc, best) ==
  LET g == random_state[1]
      state_click == Get(d, <<st, TRUE>>)
      state_nothing == Get(d, <<st, FALSE>>)
      value == randint(g, 1, 10)
      g1 == Advance(g)
      coin == randint(g1, 0, 1)
      g2 == Advance(g1)
  IN  IF value < 3 /\ sc >= best
      THEN [action |-> (coin = 1), value |-> value, explored |-> TRUE,
            random_state |-> [random_state EXCEPT ![1] = g2], rng |-> g2]
      ELSE [action |-> (state_click > state_nothing), value |-> value,
            explored |-> FALSE,
            random_state |-> [random_state EXCEPT ![1] = g1], rng |-> g1]

\* state = (240 - 165, 567 - 50, False)
InitialState == <<240 - 165, 567 - 50, FALSE>>

\* (int(bird.y - (512 - pipes[0].bottom_pieces*32 - 27)), int(pipes[0].x - 50), dead)
Encode(b, front, isDead) ==
  << Trunc(b.y - (512 - front.bottom_pieces * 32 - 27) * YS, YS),
     front.x - 50,
     isDead >>

\* ----------------------------------------------------------------- state
VARIABLES
  pc,                  \* "outer": at the top of while(1); "inner": in while not done
  dict,                \* the value table: (state, action) -> value
  max_score,
  random_state,        \* [0]: the obstacle stream, [1]: the exploration stream
  rng,                 \* the state of the random module's generator
  bird,
  pipes,               \* the deque, front first
  frame_clock,
  score,
  done,
  state, action,
  previous_state, previous_action,
  early_state, early_action,
  fps_to_next_action,
  dead,
  old_pipe,            \* the id of the pipe old_pipe refers to
  store,               \* foo.txt and max_score.txt, as last written
  life,                \* the number of lives started
  quits,               \* the number of quit requests received
  obs,                 \* what the last frame did
  best_final           \* the highest final score of a life that ended in death

vars == << pc, dict, max_score, random_state, rng, bird, pipes, frame_clock,
           score, done, state, action, previous_state, previous_action,
           early_state, early_action, fps_to_next_action, dead, old_pipe,
           store, life, quits, obs, best_final >>

NoObs == [decided |-> FALSE, value |-> 0, explored |-> FALSE, spawned |-> FALSE,
          checked |-> FALSE, front_scored |-> FALSE, bonus |-> FALSE,
          quit |-> FALSE, death |-> FALSE, popped |-> 0]

\* the variables of main() as one record
Locals ==
  [dict |-> dict, max_score |-> max_score, random_state |-> random_state,
   rng |-> rng, bird |-> bird, pipes |-> pipes, frame_clock |-> frame_clock,
   score |-> score, done |-> done, state |-> state, action |-> action,
   previous_state |-> previous_state, previous_action |-> previous_action,
   early_state |-> early_state, early_action |-> early_action,
   fps_to_next_action |-> fps_to_next_action, dead |-> dead,
   old_pipe |-> old_pipe, store |-> store, life |-> life, obs |-> NoObs]

Init ==
  /\ pc = "outer"
  /\ dict = << >>
  /\ done = FALSE
  /\ random_state = [i \in {0, 1} |-> Unset]
  /\ max_score = 0
  /\ rng \in {[seed |-> s, pos |-> 0] : s \in OsSeeds}
  /\ bird = NewBird
  /\ pipes = << >>
  /\ frame_clock = 0
  /\ score = 0
  /\ state = InitialState
  /\ action = FALSE
  /\ previous_state = InitialState
  /\ previous_action = FALSE
  /\ early_state = InitialState
  /\ early_action = FALSE
  /\ fps_to_next_action = 0
  /\ dead = FALSE
  /\ old_pipe = << 0, 0 >>
  /\ store = << >>
  /\ life = 0
  /\ quits = 0
  /\ obs = NoObs
  /\ best_final = 0

\* ------------------------------------------------------------- a new life
\* StartLife with the table created inside the loop
StartLifeFresh ==
  /\ pc = "outer"
  /\ life < MaxLives
  /\ random_state' = [i \in {0, 1} |-> IF i = 1 THEN rng ELSE Seeded]
  /\ rng' = Seeded
  /\ bird' = NewBird
  /\ pipes' = << >>
  /\ frame_clock' = 0
  /\ score' = 0
  /\ done' = FALSE
  /\ state' = InitialState
  /\ fps_to_next_action' = 0
  /\ action' = FALSE
  /\ previous_state' = InitialState
  /\ early_state' = InitialState
  /\ previous_action' = FALSE
  /\ early_action' = FALSE
  /\ life' = life + 1
  /\ obs' = NoObs
  /\ pc' = "inner"
  /\ dict' = << >>
  /\ UNCHANGED << max_score, dead, old_pipe, store, quits, best_final >>

\* StartLife with the obstacle stream seeded for the first life only
StartLifeSeedOnce ==
  /\ pc = "outer"
  /\ life < MaxLives
  /\ random_state' = [i \in {0, 1} |->
                        IF i = 1 THEN rng
                        ELSE IF life = 0 THEN Seeded ELSE random_state[0]]
  /\ rng' = IF life = 0 THEN Seeded ELSE random_state[0]
  /\ bird' = NewBird
  /\ pipes' = << >>
  /\ frame_clock' = 0
  /\ score' = 0
  /\ done' = FALSE
  /\ state' = InitialState
  /\ fps_to_next_action' = 0
  /\ action' = FALSE
  /\ previous_state' = InitialState
  /\ early_state' = InitialState
  /\ previous_action' = FALSE
  /\ early_action' = FALSE
  /\ life' = life + 1
  /\ obs' = NoObs
  /\ pc' = "inner"
  /\ UNCHANGED << dict, max_score, dead, old_pipe, store, quits, best_final >>

\* StartLife with the previous and early pairs carried over
StartLifeKeepsContext ==
  /\ pc = "outer"
  /\ life < MaxLives
  /\ random_state' = [i \in {0, 1} |-> IF i = 1 THEN rng ELSE Seeded]
  /\ rng' = Seeded
  /\ bird' = NewBird
  /\ pipes' = << >>
  /\ frame_clock' = 0
  /\ score' = 0
  /\ done' = FALSE
  /\ state' = InitialState
  /\ fps_to_next_action' = 0
  /\ action' = FALSE
  /\ life' = life + 1
  /\ obs' = NoObs
  /\ pc' = "inner"
  /\ UNCHANGED << dict, max_score, dead, old_pipe, store, quits, best_final,
                  previous_state, previous_action, early_state, early_action >>

\* StartLife with the current pair carried over
StartLifeKeepsState ==
  /\ pc = "outer"
  /\ life < MaxLives
  /\ random_state' = [i \in {0, 1} |-> IF i = 1 THEN rng ELSE Seeded]
  /\ rng' = Seeded
  /\ bird' = NewBird
  /\ pipes' = << >>
  /\ frame_clock' = 0
  /\ score' = 0
  /\ done' = FALSE
  /\ fps_to_next_action' = 0
  /\ previous_state' = InitialState
  /\ early_state' = InitialState
  /\ previous_action' = FALSE
  /\ early_action' = FALSE
  /\ life' = life + 1
  /\ obs' = NoObs
  /\ pc' = "inner"
  /\ UNCHANGED << dict, max_score, dead, old_pipe, store, quits, best_final,
                  state, action >>

\* The body of while(1) up to the inner loop.
StartLife ==
  /\ pc = "outer"
  /\ life < MaxLives
  /\ random_state' = [i \in {0, 1} |-> IF i = 1 THEN rng ELSE Seeded]
  /\ rng' = Seeded
  /\ bird' = NewBird
  /\ pipes' = << >>
  /\ frame_clock' = 0
  /\ score' = 0
  /\ done' = FALSE
  /\ state' = InitialState
  /\ fps_to_next_action' = 0
  /\ action' = FALSE
  /\ previous_state' = InitialState
  /\ early_state' = InitialState
  /\ previous_action' = FALSE
  /\ early_action' = FALSE
  /\ life' = life + 1
  /\ obs' = NoObs
  /\ pc' = "inner"
  /\ UNCHANGED << dict, max_score, dead, old_pipe, store, quits, best_final >>

\* ------------------------------------------------------- one frame, by parts
\* Decide with the choice made one frame late
DecideOffByOne(L) ==
  LET da == determine_action(L.state, L.dict, L.random_state, L.score, L.max_score)
      L1 == IF L.fps_to_next_action = 1
            THEN [L EXCEPT !.action = da.action,
                           !.random_state = da.random_state,
                           !.rng = da.rng,
                           !.bird.msec_to_climb =
                              IF da.action THEN CLIMB_DURATION ELSE @,
                           !.obs.decided = TRUE,
                           !.obs.value = da.value,
                           !.obs.explored = da.explored]
            ELSE L
  IN  [L1 EXCEPT !.fps_to_next_action = @ + 1]

\* if fps_to_next_action == 0: choose the action; then fps_to_next_action += 1
Decide(L) ==
  LET da == determine_action(L.state, L.dict, L.random_state, L.score, L.max_score)
      L1 == IF L.fps_to_next_action = 0
            THEN [L EXCEPT !.action = da.action,
                           !.random_state = da.random_state,
                           !.rng = da.rng,
                           !.bird.msec_to_climb =
                              IF da.action THEN CLIMB_DURATION ELSE @,
                           !.obs.decided = TRUE,
                           !.obs.value = da.value,
                           !.obs.explored = da.explored]
            ELSE L
  IN  [L1 EXCEPT !.fps_to_next_action = @ + 1]

\* Spawn with the interval taken in milliseconds, not frames
SpawnEveryMsec(L) ==
  IF L.frame_clock % ADD_INTERVAL = 0
  THEN LET pp == PipePairInit(L.random_state, << L.life, L.random_state[0].pos + 1 >>)
           q == Append(L.pipes, pp.pipe)
       IN  [L EXCEPT !.pipes = q,
                     !.random_state = pp.random_state,
                     !.rng = pp.rng,
                     !.old_pipe = q[1].id,
                     !.obs.spawned = TRUE]
  ELSE L

\* Spawn with the new pipe put at the front of the queue
SpawnAtFront(L) ==
  IF L.frame_clock % FramesPerAdd = 0
  THEN LET pp == PipePairInit(L.random_state, << L.life, L.random_state[0].pos + 1 >>)
           q == << pp.pipe >> \o L.pipes
       IN  [L EXCEPT !.pipes = q,
                     !.random_state = pp.random_state,
                     !.rng = pp.rng,
                     !.old_pipe = q[1].id,
                     !.obs.spawned = TRUE]
  ELSE L

\* if not (paused or frame_clock % msec_to_frames(ADD_INTERVAL)): add a pipe
Spawn(L) ==
  IF L.frame_clock % FramesPerAdd = 0
  THEN LET pp == PipePairInit(L.random_state, << L.life, L.random_state[0].pos + 1 >>)
           q == Append(L.pipes, pp.pipe)
       IN  [L EXCEPT !.pipes = q,
                     !.random_state = pp.random_state,
                     !.rng = pp.rng,
                     !.old_pipe = q[1].id,
                     !.obs.spawned = TRUE]
  ELSE L

\* PeriodicUpdate with the discount of the death branch
PeriodicUpdateDeathGamma(d, pstate, paction, reward, max_reward) ==
  Put(d, << pstate, paction >>,
      TD(Get(d, << pstate, paction >>), reward, GAMMA_DEATH, max_reward))

\* dict[previous_state, previous_action] after the periodic update
PeriodicUpdate(d, pstate, paction, reward, max_reward) ==
  Put(d, << pstate, paction >>,
      TD(Get(d, << pstate, paction >>), reward, GAMMA_PERIODIC, max_reward))

\* if fps_to_next_action == 15: the decision-interval check
Check(L) ==
  IF L.fps_to_next_action = DECISION_INTERVAL
  THEN LET isDead == AnyCollision(L.pipes, L.bird) \/ OutOfBounds(L.bird)
           new_state == Encode(L.bird, L.pipes[1], isDead)
           reward == IF isDead THEN DEATH_VALUE ELSE ALIVE_REWARD
           max_reward == get_max_reward(L.state, L.dict, L.action)
       IN  [L EXCEPT !.dead = isDead,
                     !.done = IF isDead THEN TRUE ELSE @,
                     !.dict = PeriodicUpdate(L.dict, L.previous_state,
                                             L.previous_action, reward, max_reward),
                     !.early_state = L.previous_state,
                     !.early_action = L.previous_action,
                     !.previous_state = L.state,
                     !.previous_action = L.action,
                     !.state = new_state,
                     !.fps_to_next_action = 0,
                     !.obs.checked = TRUE,
                     !.obs.front_scored = L.pipes[1].score_counted]
  ELSE L

\* Bonus without the comparison of the score to max_score
BonusUngated(L) ==
  IF L.old_pipe # L.pipes[1].id /\ ~L.dead
  THEN [L EXCEPT !.dict = Put(@, << L.early_state, L.early_action >>,
                              Get(@, << L.early_state, L.early_action >>) + BONUS * QS),
                 !.old_pipe = L.pipes[1].id,
                 !.obs.bonus = TRUE]
  ELSE L

\* if old_pipe is not pipes[0] and score > max_score: the delayed bonus
Bonus(L) ==
  IF L.old_pipe # L.pipes[1].id /\ L.score > L.max_score /\ ~L.dead
  THEN [L EXCEPT !.dict = Put(@, << L.early_state, L.early_action >>,
                              Get(@, << L.early_state, L.early_action >>) + BONUS * QS),
                 !.old_pipe = L.pipes[1].id,
                 !.obs.bonus = TRUE]
  ELSE L

\* for e in pygame.event.get(): a quit request writes both files
Events(L, quit) ==
  IF quit
  THEN [L EXCEPT !.done = TRUE,
                 !.store = << [foo |-> L.dict, max_score |-> L.max_score] >>,
                 !.obs.quit = TRUE]
  ELSE L

\* DeathUpdate with the terminal pair blended like any other update
DeathUpdateBlended(d, st, a, pstate, paction) ==
  LET d1 == Put(d, << st, a >>,
                TD(Get(d, << st, a >>), DEATH_VALUE, GAMMA_DEATH,
                   get_max_reward(st, d, a)))
      max_reward == get_max_reward(st, d1, a)
  IN  Put(d1, << pstate, paction >>,
          TD(Get(d1, << pstate, paction >>), DEATH_VALUE, GAMMA_DEATH, max_reward))

\* DeathUpdate with the discount of the periodic update
DeathUpdatePeriodicGamma(d, st, a, pstate, paction) ==
  LET d1 == Put(d, << st, a >>, DEATH_VALUE * QS)
      max_reward == get_max_reward(st, d1, a)
  IN  Put(d1, << pstate, paction >>,
          TD(Get(d1, << pstate, paction >>), DEATH_VALUE, GAMMA_PERIODIC, max_reward))

\* dict after the death branch: the terminal pair, then the previous pair
DeathUpdate(d, st, a, pstate, paction) ==
  LET d1 == Put(d, << st, a >>, DEATH_VALUE * QS)
      max_reward == get_max_reward(st, d1, a)
  IN  Put(d1, << pstate, paction >>,
          TD(Get(d1, << pstate, paction >>), DEATH_VALUE, GAMMA_DEATH, max_reward))

\* BestScore that keeps the last life's score
BestScoreLast(sc, best) == sc

\* max_score after a death
BestScore(sc, best) == IF sc > best THEN sc ELSE best

\* if pipe_collision or 0 >= bird.y or bird.y >= WIN_HEIGHT - Bird.HEIGHT
Collide(L) ==
  IF AnyCollision(L.pipes, L.bird) \/ OutOfBounds(L.bird)
  THEN [L EXCEPT !.done = TRUE,
                 !.dict = DeathUpdate(@, L.state, L.action,
                                      L.previous_state, L.previous_action),
                 !.max_score = BestScore(L.score, @),
                 !.obs.death = TRUE]
  ELSE L

\* while pipes and not pipes[0].visible: pipes.popleft()
RECURSIVE DropInvisible(_)
DropInvisible(q) ==
  IF q # << >> /\ ~visible(q[1]) THEN DropInvisible(Tail(q)) ELSE q

\* score += 1 for each pipe left behind and not yet counted
Passed(p) == p.x + PIPE_WIDTH < BIRD_X /\ ~p.score_counted

\* the rest of the frame: drop, move, count, frame_clock += 1
Move(L) ==
  LET kept == DropInvisible(L.pipes)
      moved == [i \in 1..Len(kept) |-> PipeUpdate(kept[i])]
      gained == Cardinality({i \in 1..Len(moved) : Passed(moved[i])})
      counted == [i \in 1..Len(moved) |->
                    IF Passed(moved[i]) THEN [moved[i] EXCEPT !.score_counted = TRUE]
                    ELSE moved[i]]
  IN  [L EXCEPT !.pipes = counted,
                !.bird = BirdUpdate(@),
                !.score = @ + gained,
                !.frame_clock = @ + 1,
                !.obs.popped = Len(L.pipes) - Len(kept)]

\* One iteration of while not done.
FrameResult(quit) == Move(Collide(Events(Bonus(Check(Spawn(Decide(Locals)))), quit)))

Frame ==
  /\ pc = "inner"
  /\ random_state[1].pos + 2 <= MaxDraws
  /\ \E quit \in BOOLEAN :
       /\ quit => quits < MaxQuits
       /\ \E R \in {FrameResult(quit)} :
              /\ dict' = R.dict
              /\ max_score' = R.max_score
              /\ random_state' = R.random_state
              /\ rng' = R.rng
              /\ bird' = R.bird
              /\ pipes' = R.pipes
              /\ frame_clock' = R.frame_clock
              /\ score' = R.score
              /\ done' = R.done
              /\ state' = R.state
              /\ action' = R.action
              /\ previous_state' = R.previous_state
              /\ previous_action' = R.previous_action
              /\ early_state' = R.early_state
              /\ early_action' = R.early_action
              /\ fps_to_next_action' = R.fps_to_next_action
              /\ dead' = R.dead
              /\ old_pipe' = R.old_pipe
              /\ store' = R.store
              /\ obs' = R.obs
              /\ best_final' = IF R.obs.death /\ R.score > best_final
                               THEN R.score ELSE best_final
              /\ pc' = IF R.done THEN "outer" ELSE "inner"
       /\ quits' = IF quit THEN quits + 1 ELSE quits
  /\ UNCHANGED life

Next == StartLife \/ Frame

Spec == Init /\ [][Next]_vars

\* ---------------------------------------------------------------- claims
Max(a, b) == IF a > b THEN a ELSE b

Ids(q) == {q[i].id : i \in 1..Len(q)}

\* A step that is one frame of the inner loop.
IsFrame == pc = "inner" /\ frame_clock' = frame_clock + 1

\* C1: once a quit request has been observed in a frame, the main loop has
\* ended: the program stays where that frame left it, no life is started and
\* no frame is executed after it.
C1_QuitEndsLoop == quits > 0 => (obs.quit /\ pc = "outer")

\* C2: at every life restart after the first, the exploration stream
\* (random_state[1]) keeps the state its last draw left: it is not reseeded
\* and never takes the obstacle stream's state.
C2_ExplorationStreamKept ==
  [][(pc = "outer" /\ life >= 1) => random_state'[1] = random_state[1]]_vars

\* The frame in which a pipe of the queue was created, from its position.
BornAt(p) == frame_clock - ((WIN_WIDTH - 1 - p.x) \div PIPE_STEP)

\* C3: in every life the k-th pipe created has the gap that the k-th draw
\* after random.seed(0) gives, whatever the exploration stream drew before.
C3_ObstacleLayout ==
  \A i \in 1..Len(pipes) :
    LET k == (BornAt(pipes[i]) \div FramesPerAdd) + 1
        drawn == 1 + SeedZero[k]
    IN  /\ pipes[i].bottom_pieces = drawn + 1
        /\ pipes[i].top_pieces = (total_pipe_body_pieces - drawn) + 1

\* a later life with its second pipe, after draws of both kinds
C3_Witness ==
  /\ life >= 2
  /\ Len(pipes) = 2
  /\ pipes[2].bottom_pieces = 9
  /\ random_state[1].seed # "zero"
  /\ random_state[1].pos > 20

\* C4: a life restart changes no table entry, and no step ever removes a key
\* from the table.
C4_TableSurvives ==
  [][/\ DOMAIN dict \subseteq DOMAIN dict'
     /\ pc = "outer" => dict' = dict]_vars

\* a later life running on the table an earlier life filled
C4_Witness == life >= 2 /\ pc = "inner" /\ Cardinality(DOMAIN dict) >= 10

\* C5: at every decision-interval check the pipe at the front of the queue,
\* the one the new state is computed from, has not been scored yet.
C5_FrontIsUpcoming == obs.checked => ~obs.front_scored

\* C6: at the end of a frame whose per-frame check found the bird dead, the
\* terminal pair (state, action) holds exactly -1000.
C6_TerminalPairExact ==
  obs.death => /\ << state, action >> \in DOMAIN dict
               /\ dict[<< state, action >>] = DEATH_VALUE * QS

\* a death found in a frame that also ran the decision-interval check, with a
\* previous pair that holds a blended value
C6_Witness ==
  /\ obs.death
  /\ obs.checked
  /\ Get(dict, << previous_state, previous_action >>) # DEATH_VALUE * QS
  /\ Get(dict, << previous_state, previous_action >>) < 0

\* C7: a decision-interval check sets Q[previous_state, previous_action] to
\* old + 0.7 * (reward + 0.9 * max(Q[state, True], Q[state, False]) - old),
\* absent entries read as 0, reward 1 if the bird is alive at the check and
\* -1000 if not; it changes no other entry (a death in the same frame writes
\* its own two pairs).  From zeros and reward 1 the value is exactly 0.7.
C7_PeriodicUpdate ==
  [][(IsFrame /\ fps_to_next_action = DECISION_INTERVAL - 1) =>
       LET key == << previous_state, previous_action >>
           old == Get(dict, key)
           hit == AnyCollision(pipes, bird) \/ OutOfBounds(bird)
           reward == IF hit THEN -1000 ELSE 1
           best == Max(Get(dict, << state, TRUE >>), Get(dict, << state, FALSE >>))
           target == 7 * (100 * reward * QS + 90 * best - 100 * old)
           diff == 1000 * (dict'[key] - old) - target
           own == IF obs'.death
                  THEN {key, << state', action' >>, << state, action >>}
                  ELSE {key}
       IN  /\ key \in DOMAIN dict'
           /\ dead' = hit
           /\ -500 <= diff /\ diff <= 500
           /\ (old = 0 /\ best = 0 /\ ~hit) => 10 * dict'[key] = 7 * QS
           /\ \A k \in (DOMAIN dict') \ own : k \in DOMAIN dict /\ dict'[k] = dict[k]]_vars

\* the first check of the first life: from the empty table to 0.7
C7_Witness ==
  /\ life = 1
  /\ frame_clock = DECISION_INTERVAL
  /\ obs.checked
  /\ ~dead
  /\ dict = (<< InitialState, FALSE >> :> 700)

\* C8 as written: a random action is returned only on a draw < 3 with
\* score >= max_score, and the first life, which has proven nothing yet,
\* never explores.
C8_EarlyLivesNeverExplore ==
  /\ obs.explored => obs.value < 3
  /\ life = 1 => ~obs.explored

\* C8, amended: determine_action returns the randomly drawn action exactly
\* when the draw in [1, 10] is < 3 and score >= max_score, and the greedy
\* action otherwise, so every call with score < max_score is greedy; the
\* first life is under the same gate and explores.
C8_ExplorationGate ==
  [][(IsFrame /\ fps_to_next_action = 0) =>
       LET g == random_state[1]
           value == 1 + Decile(g)
           coin == Decile(Advance(g)) \div 5
           greedy == Get(dict, << state, TRUE >>) > Get(dict, << state, FALSE >>)
           draws == random_state'[1].pos - g.pos
       IN  /\ random_state'[1].seed = g.seed
           /\ draws = IF value < 3 /\ score >= max_score THEN 2 ELSE 1
           /\ draws = 2 => action' = (coin = 1)
           /\ draws = 1 => action' = greedy]_vars

\* a draw < 3 that the gate turned into a greedy choice
C8_Witness ==
  /\ obs.decided
  /\ obs.value < 3
  /\ ~obs.explored
  /\ score < max_score

\* C9: in a life a pipe is created in frames 0, 180, 360, ... and in no other
\* frame; a creation appends one pipe at the back of the queue, at x = 567
\* (564 once the frame has moved it).
C9_SpawnCadence ==
  [][IsFrame =>
       LET due == frame_clock % 180 = 0
           new == Ids(pipes') \ Ids(pipes)
           last == pipes'[Len(pipes')]
       IN  /\ Cardinality(new) = IF due THEN 1 ELSE 0
           /\ random_state'[0].pos = (frame_clock \div 180) + 1
           /\ due => /\ Len(pipes') = Len(pipes) + 1
                     /\ last.id \in new
                     /\ last.x = 567 - PIPE_STEP
                     /\ \A i \in 1..Len(pipes) : pipes'[i].id = pipes[i].id]_vars

\* the second pipe of a life, one frame old, behind the first
C9_Witness ==
  /\ frame_clock = 181
  /\ Len(pipes) = 2
  /\ pipes[2].x = 564
  /\ pipes[1].x = 24

\* C10: a life that ends in death with a final score above max_score makes
\* that score the new max_score; every life starts with max_score equal to the
\* highest final score of the earlier lives that ended in death; max_score
\* never decreases.
C10_BestScore ==
  [][/\ max_score' >= max_score
     /\ (IsFrame /\ obs'.death) => max_score' = Max(max_score, score')
     /\ pc' = "outer" => max_score' = best_final']_vars

\* a life that died below the best score, which stays
C10_Witness ==
  /\ pc = "outer"
  /\ obs.death
  /\ score = 0
  /\ max_score = 1
  /\ best_final = 1

\* C11: in every reachable state the bird's msec_to_climb is >= 0, from the
\* 2 ms of a new life on and under every sequence of updates and climbs.
C11_ClimbNonNegative == bird.msec_to_climb >= 0

\* C12: the queue is non-empty wherever its front is read.  At the top of each
\* frame either the queue holds a pipe or this frame creates one before the
\* check and the bonus test read the front; and a frame that drops the front
\* leaves a pipe behind it.
C12_FrontPresent ==
  /\ pc = "inner" => (pipes # << >> \/ frame_clock % FramesPerAdd = 0)
  /\ frame_clock > 0 => pipes # << >>
  /\ obs.popped > 0 => Len(pipes) >= 1

\* the frame after the first pipe was dropped: the second pipe is the front
C12_Witness ==
  /\ pc = "inner"
  /\ frame_clock = 217
  /\ obs.popped = 1
  /\ Len(pipes) = 1
  /\ pipes[1].x = 456

\* C13: in the frame after the front of the queue was dropped, with the life
\* still running, the table changes by exactly +100 on the early pair
\* (early_state, early_action) if score > max_score, and not at all if
\* score <= max_score; no other frame adds a bonus, so a front change is paid
\* once or never.  (The frame after a drop is never a decision-interval check;
\* a death in that frame writes its own two pairs on top.)
C13_DelayedBonus ==
  [][IsFrame =>
       LET front_changed == obs.popped > 0
           key == << early_state, early_action >>
           due == front_changed /\ score > max_score
           quiet == fps_to_next_action # DECISION_INTERVAL - 1 /\ ~obs'.death
       IN  /\ front_changed => fps_to_next_action # DECISION_INTERVAL - 1
           /\ obs'.bonus <=> due
           /\ (quiet /\ due) => dict' = Put(dict, key, Get(dict, key) + 100 * QS)
           /\ (quiet /\ ~due) => dict' = dict
           /\ due => /\ early_state' = early_state
                     /\ early_action' = early_action]_vars

\* a later life whose first front change came with score 1 under a best score
\* of 2 and was not paid, on a table that holds a bonus paid in the first life
C13_Witness ==
  /\ life >= 2
  /\ pc = "inner"
  /\ frame_clock = 218
  /\ score = 1
  /\ max_score = 2
  /\ \E k \in DOMAIN dict : dict[k] >= BONUS * QS
  /\ ~obs.bonus

\* C14: in a life determine_action is called in frames 0, 15, 30, ... and in
\* no other frame; the periodic update runs in frames 14, 29, 44, ..., once
\* between two consecutive choices: it writes the pair (previous_state,
\* previous_action), the one chosen an interval before the current pair
\* (state, action), and then shifts early <- previous <- current <- the new
\* state.  In every other frame the three pairs keep their states, and the
\* table changes only by a bonus or a death.
C14_DecisionInterval ==
  [][IsFrame =>
       LET chosen == random_state'[1].pos > random_state[1].pos
           check == frame_clock % 15 = 14
       IN  /\ fps_to_next_action = frame_clock % 15
           /\ chosen <=> frame_clock % 15 = 0
           /\ ~chosen => action' = action
           /\ check =>
                /\ << previous_state, previous_action >> \in DOMAIN dict'
                /\ early_state' = previous_state
                /\ early_action' = previous_action
                /\ previous_state' = state
                /\ previous_action' = action
                /\ state'[2] = pipes[1].x - BIRD_X
                /\ fps_to_next_action' = 0
           /\ ~check =>
                /\ early_state' = early_state
                /\ early_action' = early_action
                /\ previous_state' = previous_state
                /\ previous_action' = previous_action
                /\ state' = state
                /\ (~obs'.bonus /\ ~obs'.death) => dict' = dict]_vars

\* after the fourth check of a life: three different states in the context,
\* the middle one with a click chosen for it
C14_Witness ==
  /\ pc = "inner"
  /\ frame_clock = 60
  /\ obs.checked
  /\ early_state[2] = 567 - 3 * 29 - BIRD_X
  /\ previous_state[2] = 567 - 3 * 44 - BIRD_X
  /\ state[2] = 567 - 3 * 59 - BIRD_X
  /\ previous_action
  /\ << early_state, early_action >> \in DOMAIN dict

\* C15: in a frame whose per-frame check finds the bird dead, the pair
\* (previous_state, previous_action) of that moment ends at
\* old + 0.7 * (-1000 + 0.75 * max(Q[state, action], Q[state, not action]) - old),
\* where Q[state, action] is the -1000 just written to the terminal pair,
\* absent entries read as 0, and old is read after that write too.  (The
\* values are those the table has when the death branch starts: a bonus paid
\* earlier in the frame is counted; the pair a decision-interval check of the
\* same frame wrote is left to C7.)
C15_DeathUpdate ==
  [][(IsFrame /\ (AnyCollision(pipes, bird) \/ OutOfBounds(bird))) =>
       LET check == fps_to_next_action = DECISION_INTERVAL - 1
           paid == obs.popped > 0 /\ score > max_score
           kp == << previous_state, previous_action >>
           kb == << early_state, early_action >>
           kt == << state', action' >>
           ko == << state', ~action' >>
           kd == << previous_state', previous_action' >>
           known(k) == ~(check /\ k = kp)
           Mid(k) == IF paid /\ k = kb THEN Get(dict, k) + 100 * QS ELSE Get(dict, k)
           old == IF kd = kt THEN -1000 * QS ELSE Mid(kd)
           best == Max(-1000 * QS, Mid(ko))
           target == 7 * (100 * (-1000) * QS + 75 * best - 100 * old)
           diff == 1000 * (dict'[kd] - old) - target
       IN  /\ obs'.death
           /\ kd \in DOMAIN dict'
           /\ (known(kd) /\ known(ko)) => (-500 <= diff /\ diff <= 500)]_vars

\* a death in a state whose other action holds a value between -1000 and 0:
\* the maximum is that value, not the terminal pair's -1000 and not 0
C15_Witness ==
  /\ obs.death
  /\ ~obs.checked
  /\ Get(dict, << state, ~action >>) < 0
  /\ Get(dict, << state, ~action >>) > DEATH_VALUE * QS
  /\ Get(dict, << state, action >>) = DEATH_VALUE * QS
  /\ << previous_state, previous_action >> # << state, action >>

\* C16: a call of determine_action that does not explore (it consumes one
\* draw) returns a click iff Q[state, True] > Q[state, False], absent entries
\* read as 0; on a tie, two absent entries included, it returns do-nothing.
C16_GreedyTieBreak ==
  [][(/\ IsFrame
      /\ fps_to_next_action = 0
      /\ random_state'[1].pos = random_state[1].pos + 1) =>
       LET has(a) == << state, a >> \in DOMAIN dict
           click == IF has(TRUE) THEN dict[<< state, TRUE >>] ELSE 0
           nothing == IF has(FALSE) THEN dict[<< state, FALSE >>] ELSE 0
       IN  /\ action' <=> click > nothing
           /\ click = nothing => ~action'
           /\ (~has(TRUE) /\ ~has(FALSE)) => ~action']_vars

\* a greedy choice in a state whose two entries hold the same value, 0.7
C16_Witness ==
  /\ obs.decided
  /\ ~obs.explored
  /\ ~obs.death
  /\ << state, TRUE >> \in DOMAIN dict
  /\ << state, FALSE >> \in DOMAIN dict
  /\ dict[<< state, TRUE >>] = dict[<< state, FALSE >>]
  /\ dict[<< state, TRUE >>] = 700
  /\ ~action

\* C17: every step that starts a life, whatever the previous life left, ends
\* with the bird at y = 240 with 2 ms of climb, an empty queue, frame_clock,
\* fps_to_next_action and score at 0, and the current, previous and early
\* pairs all at ((75, 517, False), do-nothing).
C17_LifeReset ==
  [][pc = "outer" =>
       /\ pc' = "inner"
       /\ bird'.y = 240 * YS
       /\ 30 * 2 = bird'.msec_to_climb
       /\ pipes' = << >>
       /\ frame_clock' = 0
       /\ fps_to_next_action' = 0
       /\ score' = 0
       /\ ~done'
       /\ state' = << 75, 517, FALSE >>
       /\ previous_state' = << 75, 517, FALSE >>
       /\ early_state' = << 75, 517, FALSE >>
       /\ ~action' /\ ~previous_action' /\ ~early_action']_vars

\* the start of a life that follows a death found at a decision-interval
\* check: the old life's dead flag is still set
C17_Witness ==
  /\ life >= 2
  /\ pc = "inner"
  /\ frame_clock = 0
  /\ pipes = << >>
  /\ state = InitialState
  /\ dead
  /\ Cardinality(DOMAIN dict) > 5

\* C18 as written: the queue, read from its front, is sorted by decreasing x.
C18_SortedDecreasing ==
  \A i, j \in 1..Len(pipes) : i < j => pipes[i].x > pipes[j].x

\* C18, amended: the queue is sorted by increasing x from front to back, the
\* front being the oldest and leftmost pipe.  A frame keeps the pipes it does
\* not drop in their order, drops pipes only from the front and only at
\* x <= -80, and puts a new pipe only at the back.
C18_QueueOrder ==
  [][IsFrame =>
       LET n == Len(pipes)
           m == Len(pipes')
           added == IF frame_clock % 180 = 0 THEN 1 ELSE 0
           k == n + added - m
       IN  /\ k \in 0..n
           /\ \A i \in 1..k : pipes[i].x <= -80
           /\ \A i \in 1..(n - k) : /\ pipes'[i].id = pipes[i + k].id
                                    /\ pipes'[i].x = pipes[i + k].x - 3
           /\ added = 1 => pipes'[m].id \notin Ids(pipes)
           /\ \A i, j \in 1..m : i < j => pipes'[i].x < pipes'[j].x]_vars

\* the third pipe of a life behind the second, after the first was dropped
C18_Witness ==
  /\ frame_clock = 361
  /\ Len(pipes) = 2
  /\ pipes[1].id[2] = 2
  /\ pipes[2].id[2] = 3
  /\ pipes[1].x = 24
  /\ pipes[2].x = 564

\* C19: every table entry whose state has isDead = True holds exactly -1000.
\* Such a state is the current state only in the frame that ends a life, and
\* is never the previous or the early state, the targets of the periodic
\* update, of the death branch's second write and of the bonus.
C19_DeadKeysTerminal ==
  /\ \A k \in DOMAIN dict : k[1][3] => dict[k] = -1000 * QS
  /\ ~previous_state[3]
  /\ ~early_state[3]
  /\ state[3] => (pc = "outer" /\ obs.death /\ obs.checked)

\* a later life, past its second check, on a table that holds a dead state
C19_Witness ==
  /\ life >= 2
  /\ pc = "inner"
  /\ frame_clock > 2 * DECISION_INTERVAL
  /\ \E k \in DOMAIN dict : k[1][3] /\ dict[k] = DEATH_VALUE * QS

\* C20: the queue never holds more than 2 pipes: not between frames, and not
\* inside a frame between the creation of a pipe and the drop of the front.
C20_AtMostTwo ==
  [][IsFrame =>
       /\ Len(pipes) + (IF frame_clock % 180 = 0 THEN 1 ELSE 0) <= 2
       /\ Len(pipes') <= 2]_vars

\* the second and third pipes of a life in the queue, the second one passed
C20_Witness ==
  /\ pc = "inner"
  /\ frame_clock = 380
  /\ score = 2
  /\ Len(pipes) = 2
  /\ pipes[1].score_counted
  /\ pipes[1].x = 567 - 3 * 200
  /\ pipes[2].x = 567 - 3 * 20

====
